---- MODULE Spec2Model ----
(***************************************************************************)
(* A model of efficientdet/anchors.py: the multiscale anchor generator     *)
(* (Anchors), greedy non-maximum suppression (nms), the detection          *)
(* post-processor (_generate_detections) and the anchor labeler            *)
(* (AnchorLabeler).                                                        *)
(*                                                                         *)
(* Conventions.  Python sequences are 0-based and TLA+ sequences 1-based:  *)
(* the element at Python index i is the element i + 1 here, and every      *)
(* index stored in the state (keep lists, anchor indices) is the Python    *)
(* index.  Coordinates are floats in the source; here they are integers    *)
(* counting units of 1/FP pixel, so that stride / 2 = 0.5 (stride 1) and   *)
(* the centre and half extent of a box are exact.                          *)
(***************************************************************************)
EXTENDS Integers, Sequences, FiniteSets, TLC

VARIABLES
  anchors,   \* the Anchors object: its constructor arguments, config, boxes
  unpacked,  \* the last result of AnchorLabeler._unpack_labels
  call,      \* the invocations in progress: call[p] is one call's frame
  ties       \* how this build's argsort orders equal keys

vars == <<anchors, unpacked, call, ties>>

\* Fixed point: a coordinate v of the source is stored as v * FP.
FP == 2 * 2

----------------------------------------------------------------------------
(* Bounds of the model *)

MaxLevel == 2
MaxSide == 8
MaxScales == 2

\* The aspect ratios (w, h) a configuration takes a prefix of.
AspectList == << <<1, 1>>, <<2, 1>> >>

----------------------------------------------------------------------------
(* Helpers *)

Max2(a, b) == IF a >= b THEN a ELSE b
Min2(a, b) == IF a <= b THEN a ELSE b

RECURSIVE SumOver(_, _, _)
\* sum of f[i] for i in lo..hi
SumOver(f, lo, hi) == IF lo > hi THEN 0 ELSE f[lo] + SumOver(f, lo + 1, hi)

\* ceil(a / b) for b > 0
CeilDiv(a, b) == -((-a) \div b)

----------------------------------------------------------------------------
(* Anchor generation *)

\* _generate_anchor_configs: level -> list of (stride, octave_scale, aspect),
\* scale octaves outermost, aspects innermost.  octave_scale is the fraction
\* scale_octave / num_scales, kept as the pair <<scale_octave, num_scales>>.
generate_anchor_configs(min_level, max_level, num_scales, aspect_ratios) ==
  [level \in min_level..max_level |->
     [k \in 1..(num_scales * Len(aspect_ratios)) |->
        [stride |-> 2^level,
         octave_scale |-> <<(k - 1) \div Len(aspect_ratios), num_scales>>,
         aspect |-> aspect_ratios[((k - 1) % Len(aspect_ratios)) + 1]]]]

\* len(np.arange(start, stop, step)), step > 0
arange_len(start, stop, step) == Max2(0, CeilDiv(stop - start, step))

\* np.arange(start, stop, step)
arange(start, stop, step) ==
  [i \in 1..arange_len(start, stop, step) |-> start + (i - 1) * step]

\* The y grid of line 171, which line 172 replaced: the grid of a square image.
config_boxes_square(config, image_size, anchor_scale, image_height) ==
  LET stride == config.stride
      anchor_size_x_2 == (FP * anchor_scale * stride * config.aspect[1]) \div 2
      anchor_size_y_2 == (FP * anchor_scale * stride * config.aspect[2]) \div 2
      x == arange((FP * stride) \div 2, FP * image_size, FP * stride)
      y == arange((FP * stride) \div 2, FP * image_size, FP * stride)
  IN [n \in 1..(Len(x) * Len(y)) |->
        [yv |-> y[((n - 1) \div Len(x)) + 1],
         xv |-> x[((n - 1) % Len(x)) + 1],
         size_y_2 |-> anchor_size_y_2,
         size_x_2 |-> anchor_size_x_2,
         octave_scale |-> config.octave_scale]]

\* The boxes of one config (lines 166-180): the grid of centres from
\* np.meshgrid(x, y) flattened row-major (y outer, x inner).  A box is kept
\* as its centre and its half extents; the half extents are to be read
\* times 2^octave_scale, which is irrational for a proper fraction.
config_boxes(config, image_size, anchor_scale, image_height) ==
  LET stride == config.stride
      anchor_size_x_2 == (FP * anchor_scale * stride * config.aspect[1]) \div 2
      anchor_size_y_2 == (FP * anchor_scale * stride * config.aspect[2]) \div 2
      x == arange((FP * stride) \div 2, FP * image_size, FP * stride)
      y == arange((FP * stride) \div 2, FP * image_height, FP * stride)
  IN [n \in 1..(Len(x) * Len(y)) |->
        [yv |-> y[((n - 1) \div Len(x)) + 1],
         xv |-> x[((n - 1) % Len(x)) + 1],
         size_y_2 |-> anchor_size_y_2,
         size_x_2 |-> anchor_size_x_2,
         octave_scale |-> config.octave_scale]]

\* The boxes of one level (lines 161-183): the configs' boxes stacked on
\* axis 1 and reshaped to [-1, 4], so cell n, config k is row n * A + k.
level_boxes(configs, image_size, anchor_scale, image_height) ==
  LET A == Len(configs)
      per == [k \in 1..A |->
                config_boxes(configs[k], image_size, anchor_scale, image_height)]
      N == IF A = 0 THEN 0 ELSE Len(per[1])
  IN [m \in 1..(N * A) |-> per[((m - 1) % A) + 1][((m - 1) \div A) + 1]]

RECURSIVE stack_levels(_, _, _, _, _, _)
stack_levels(level, max_level, anchor_configs, image_size, anchor_scale, image_height) ==
  IF level > max_level THEN << >>
  ELSE level_boxes(anchor_configs[level], image_size, anchor_scale, image_height)
       \o stack_levels(level + 1, max_level, anchor_configs, image_size,
                       anchor_scale, image_height)

\* The check of line 164, made for every config of every level.
stride_error(anchor_configs, image_size) ==
  \E level \in DOMAIN anchor_configs :
    \E k \in DOMAIN anchor_configs[level] :
      image_size % anchor_configs[level][k].stride # 0

\* _generate_anchor_boxes: raises ValueError, or returns the anchors of all
\* levels stacked in the order of the config dictionary (levels ascending).
generate_anchor_boxes(image_size, anchor_scale, anchor_configs, image_height, min_level, max_level) ==
  IF stride_error(anchor_configs, image_size)
  THEN [raised |-> TRUE, boxes |-> << >>]
  ELSE [raised |-> FALSE,
        boxes |-> stack_levels(min_level, max_level, anchor_configs, image_size,
                               anchor_scale, image_height)]

\* Anchors.get_anchors_per_location
get_anchors_per_location(a) == a.num_scales * Len(a.aspect_ratios)

\* AnchorLabeler._unpack_labels: per level the slice count..count+steps-1 of
\* labels, reshaped to [feat_size_height, feat_size, -1].
RECURSIVE unpack_from(_, _, _, _)
unpack_from(a, labels, level, count) ==
  IF level > a.max_level THEN << >>
  ELSE LET feat_size == a.image_size \div 2^level
           feat_size_height == a.image_height \div 2^level
           steps == feat_size_height * feat_size * get_anchors_per_location(a)
       IN << [level |-> level,
              first |-> count,
              shape |-> <<feat_size_height, feat_size>>,
              data |-> [i \in 1..steps |-> labels[count + i]]] >>
          \o unpack_from(a, labels, level + 1, count + steps)

\* tf.reshape(.., [feat_size_height, feat_size, -1]) cannot infer the last
\* dimension of a level without cells, and raises.
reshape_error(a) ==
  \E level \in a.min_level..a.max_level :
    (a.image_size \div 2^level) * (a.image_height \div 2^level) = 0

unpack_labels(a, labels) ==
  IF reshape_error(a) THEN [raised |-> TRUE, levels |-> << >>]
  ELSE [raised |-> FALSE, levels |-> unpack_from(a, labels, a.min_level, 0)]

\* The arguments of Anchors(...) the model draws from.
AnchorArgs ==
  [min_level : 0..MaxLevel, max_level : 0..MaxLevel,
   num_scales : 1..MaxScales,
   aspect_ratios : {SubSeq(AspectList, 1, n) : n \in 1..Len(AspectList)},
   anchor_scale : {1},
   image_size : 1..MaxSide, image_height : 1..MaxSide]

\* Anchors.__init__ (lines 321-329)
Construct ==
  /\ anchors.state = "new"
  /\ LET config == generate_anchor_configs(anchors.min_level, anchors.max_level,
                     anchors.num_scales, anchors.aspect_ratios)
         b == generate_anchor_boxes(anchors.image_size, anchors.anchor_scale,
                config, anchors.image_height, anchors.min_level,
                anchors.max_level)
     IN anchors' = IF b.raised
                   THEN [anchors EXCEPT !.state = "ValueError"]
                   ELSE [anchors EXCEPT !.state = "built", !.config = config,
                                        !.boxes = b.boxes]
  /\ UNCHANGED <<unpacked, call, ties>>

\* _unpack_labels applied to a per-anchor array: entry i names anchor i.
UnpackLabels ==
  /\ anchors.state = "built"
  /\ unpacked = << >>
  /\ unpacked' = unpack_labels(anchors, [i \in 1..Len(anchors.boxes) |-> i - 1])
  /\ UNCHANGED <<anchors, call, ties>>

InitAnchors ==
  /\ \E args \in AnchorArgs :
       /\ args.min_level <= args.max_level
       /\ anchors = [min_level |-> args.min_level, max_level |-> args.max_level,
                     num_scales |-> args.num_scales,
                     aspect_ratios |-> args.aspect_ratios,
                     anchor_scale |-> args.anchor_scale,
                     image_size |-> args.image_size,
                     image_height |-> args.image_height,
                     state |-> "new", config |-> << >>, boxes |-> << >>]
  /\ unpacked = << >>
  /\ call = << >>
  /\ ties = "stable"

NextAnchors == Construct \/ UnpackLabels

SpecAnchors == InitAnchors /\ [][NextAnchors]_vars

----------------------------------------------------------------------------
(* Claims about anchor generation, checked under SpecAnchors *)

Levels == anchors.min_level..anchors.max_level

\* Both sides are exact multiples of every level's stride.
ValidGeometry ==
  /\ anchors.image_size % 2^anchors.max_level = 0
  /\ anchors.image_height % 2^anchors.max_level = 0

\* C2: whenever the width or the height is not a multiple of 2^L for some
\* level L, construction ends in the error and produces no anchors.
C2_NonMultipleFails ==
  (/\ anchors.state # "new"
   /\ \E L \in Levels : \/ anchors.image_size % 2^L # 0
                         \/ anchors.image_height % 2^L # 0)
  => anchors.state = "ValueError"

\* Sum over the levels of (H / 2^L) * (W / 2^L) * num_scales * len(aspects).
ExpectedCount ==
  SumOver([L \in Levels |->
             (anchors.image_height \div 2^L) * (anchors.image_size \div 2^L)
             * anchors.num_scales * Len(anchors.aspect_ratios)],
          anchors.min_level, anchors.max_level)

\* C3: for a valid configuration the generator produces exactly
\* sum_L (H / 2^L) * (W / 2^L) * num_scales * len(aspect_ratios) anchors.
C3_AnchorCount ==
  (anchors.state = "built" /\ ValidGeometry)
  => Len(anchors.boxes) = ExpectedCount

\* C3's case: anchors built for a non-square image over several levels.
C3_Witness ==
  /\ anchors.state = "built" /\ ValidGeometry
  /\ anchors.image_size # anchors.image_height
  /\ anchors.min_level < anchors.max_level
  /\ Len(anchors.aspect_ratios) > 1 /\ anchors.num_scales > 1
  /\ Len(anchors.boxes) = ExpectedCount

\* The entry _unpack_labels places at (level slice u, row r, column c, config k).
EntryAt(u, r, c, k) ==
  u.data[(r * u.shape[2] + c) * get_anchors_per_location(anchors) + k + 1]

\* The slices are consecutive, in level order, of the stated lengths, cover
\* the anchor indices exactly, and entry (L, r, c, k) is the anchor of level
\* L with centre (c * 2^L + 2^L / 2, r * 2^L + 2^L / 2) and config k.
UnpackMatchesGeneration ==
  LET A == get_anchors_per_location(anchors)
      U == unpacked.levels
      n == Len(U)
  IN /\ n = anchors.max_level - anchors.min_level + 1
     /\ \A i \in 1..n : U[i].level = anchors.min_level + i - 1
     /\ U[1].first = 0
     /\ \A i \in 1..(n - 1) :
          U[i + 1].first = U[i].first + Len(U[i].data)
     /\ \A i \in 1..n :
          Len(U[i].data) = (anchors.image_height \div 2^U[i].level)
                             * (anchors.image_size \div 2^U[i].level) * A
     /\ U[n].first + Len(U[n].data) = Len(anchors.boxes)
     /\ \A i \in 1..n :
          LET u == U[i]
              s == 2^u.level
          IN \A r \in 0..(u.shape[1] - 1), c \in 0..(u.shape[2] - 1),
                k \in 0..(A - 1) :
               LET j == EntryAt(u, r, c, k)
                   b == anchors.boxes[j + 1]
                   cf == anchors.config[u.level][k + 1]
               IN /\ j = u.first + (r * u.shape[2] + c) * A + k
                  /\ b.xv = FP * c * s + (FP * s) \div 2
                  /\ b.yv = FP * r * s + (FP * s) \div 2
                  /\ b.octave_scale = cf.octave_scale
                  /\ b.size_y_2 = (FP * anchors.anchor_scale * s * cf.aspect[2]) \div 2
                  /\ b.size_x_2 = (FP * anchors.anchor_scale * s * cf.aspect[1]) \div 2

\* C10: after _unpack_labels, the slices and the generation order agree,
\* for every anchor set the generator produces.
C10_UnpackOrder ==
  (unpacked # << >> /\ ~unpacked.raised) => UnpackMatchesGeneration

\* The same for the geometries the generator is documented to accept.
UnpackOrderValidGeometry ==
  (unpacked # << >> /\ ~unpacked.raised /\ ValidGeometry)
  => UnpackMatchesGeneration

----------------------------------------------------------------------------
(* Non-maximum suppression *)

MaxDets == 3

\* np.argsort's default sort is not stable: the order it gives equal keys is
\* the build's.  ties = "stable" is the order of a stable sort (equal keys
\* by ascending index, what the sort does on short arrays in the scalar
\* build), ties = "unstable" stands for a build that orders them otherwise
\* (equal keys by descending index).
TieOrders == {"stable", "unstable"}

sorts_before(keys, t, i, j) ==
  \/ keys[i] < keys[j]
  \/ keys[i] = keys[j] /\ (IF t = "stable" THEN i < j ELSE i > j)

\* np.argsort(keys): the Python indices in ascending order of key.
argsort(keys, t) ==
  LET n == Len(keys)
      rank == [i \in 1..n |->
                 Cardinality({j \in 1..n : sorts_before(keys, t, j, i)})]
  IN [k \in 1..n |-> (CHOOSE i \in 1..n : rank[i] = k - 1) - 1]

\* s[::-1]
reversed(s) == [k \in 1..Len(s) |-> s[Len(s) + 1 - k]]

\* line 92 without the [::-1]: the boxes in ascending order of score.
visit_order_ascending(scores, t) == argsort(scores, t)

\* order = scores.argsort()[::-1] (line 92)
visit_order(scores, t) == reversed(argsort(scores, t))

\* areas without the + 1: the area of the continuous box.
area_exclusive(d) == (d[3] - d[1]) * (d[4] - d[2])

\* areas = (x2 - x1 + 1) * (y2 - y1 + 1) (line 91); a det is <<x1, y1, x2, y2, score>>
area(d) == (d[3] - d[1] + FP) * (d[4] - d[2] + FP)

\* intersection of lines 98-105
intersection(a, b) ==
  LET xx1 == Max2(a[1], b[1])
      yy1 == Max2(a[2], b[2])
      xx2 == Min2(a[3], b[3])
      yy2 == Min2(a[4], b[4])
      w == Max2(0, xx2 - xx1 + FP)
      h == Max2(0, yy2 - yy1 + FP)
  IN w * h

\* The test of line 108 inverted: keeps the boxes that overlap.
overlap_gt(a, b, thresh) ==
  LET I == intersection(a, b)
  IN I * thresh[2] > thresh[1] * (area(a) + area(b) - I)

\* overlap <= thresh (lines 106, 108); thresh is the fraction <<num, den>>
overlap_le(a, b, thresh) ==
  LET I == intersection(a, b)
  IN I * thresh[2] <= thresh[1] * (area(a) + area(b) - I)

\* The while loop of lines 95-109.
RECURSIVE nms_loop(_, _, _, _)
nms_loop(dets, thresh, order, keep) ==
  IF Len(order) = 0 THEN keep
  ELSE LET i == order[1]
           rest == Tail(order)
           inds == SelectSeq(rest, LAMBDA j : overlap_le(dets[i + 1], dets[j + 1], thresh))
       IN nms_loop(dets, thresh, inds, Append(keep, i))

\* nms(dets, thresh): the Python indices kept, in the order they were kept.
nms(dets, thresh, t) ==
  nms_loop(dets, thresh, visit_order([i \in 1..Len(dets) |-> dets[i][5]], t), << >>)

\* dets[keep]
take(s, idx) == [k \in 1..Len(idx) |-> s[idx[k] + 1]]

\* Boxes <<x1, y1, x2, y2>>, in units of 1/FP pixel: a 2 x 2 pixel box, the
\* same moved right by 3/4 pixel and by 1 pixel, a 1 x 1 box, a far box.
NmsBoxes ==
  { <<0, 0, 8, 8>>, <<3, 0, 11, 8>>, <<4, 0, 12, 8>>, <<0, 0, 4, 4>>, <<40, 40, 48, 48>> }
NmsScores == {1, 2}
NmsThresholds == { <<1, 2>>, <<1, 3>> }

NmsDets ==
  UNION {[1..n -> {b \o <<sc>> : b \in NmsBoxes, sc \in NmsScores}] : n \in 0..MaxDets}

\* frame of a call nms(dets, thresh) followed by nms(dets[keep], thresh)
NmsCall(p) ==
  /\ call[p].kind = "nms" /\ call[p].pc = "start"
  /\ call' = [call EXCEPT ![p].keep = nms(call[p].dets, call[p].thresh, ties),
                          ![p].pc = "kept"]
  /\ UNCHANGED <<anchors, unpacked, ties>>

NmsAgain(p) ==
  /\ call[p].kind = "nms" /\ call[p].pc = "kept"
  /\ call' = [call EXCEPT
                ![p].again = nms(take(call[p].dets, call[p].keep), call[p].thresh, ties),
                ![p].pc = "done"]
  /\ UNCHANGED <<anchors, unpacked, ties>>

\* The Anchors object before any construction, for the specifications that
\* do not build anchors.
NoAnchors == [state |-> "none"]

InitNms ==
  /\ anchors = NoAnchors
  /\ unpacked = << >>
  /\ ties \in TieOrders
  /\ \E dets \in NmsDets, thresh \in NmsThresholds :
       call = [p \in {1} |-> [kind |-> "nms", pc |-> "start", dets |-> dets,
                              thresh |-> thresh, keep |-> << >>, again |-> << >>]]

NextNms ==
  \/ \E p \in DOMAIN call : NmsCall(p)
  \/ \E p \in DOMAIN call : NmsAgain(p)

SpecNms == InitNms /\ [][NextNms]_vars

----------------------------------------------------------------------------
(* Claims about nms, checked under SpecNms *)

Range(s) == {s[k] : k \in DOMAIN s}

\* Pixel-inclusive IoU of two boxes > num / den, area = (x2-x1+1)*(y2-y1+1).
InclusiveIoUAbove(a, b, num, den) ==
  LET w == Max2(0, Min2(a[3], b[3]) - Max2(a[1], b[1]) + FP)
      h == Max2(0, Min2(a[4], b[4]) - Max2(a[2], b[2]) + FP)
      I == w * h
      U == (a[3] - a[1] + FP) * (a[4] - a[2] + FP)
           + (b[3] - b[1] + FP) * (b[4] - b[2] + FP) - I
  IN I * den > num * U

\* C5: nms run on the boxes a first run kept returns all of them, and no two
\* kept boxes have pixel-inclusive IoU above the threshold.
C5_NmsIdempotent ==
  \A p \in DOMAIN call :
    (call[p].kind = "nms" /\ call[p].pc = "done") =>
      LET f == call[p]
      IN /\ Range(f.again) = 0..(Len(f.keep) - 1)
         /\ Len(f.again) = Len(f.keep)
         /\ \A i, j \in Range(f.keep) :
              i # j => ~InclusiveIoUAbove(f.dets[i + 1], f.dets[j + 1],
                                          f.thresh[1], f.thresh[2])

\* C5's case: a first run that suppressed a box and kept several, rerun.
C5_Witness ==
  \E p \in DOMAIN call :
    /\ call[p].kind = "nms" /\ call[p].pc = "done"
    /\ Len(call[p].keep) >= 2
    /\ Len(call[p].keep) < Len(call[p].dets)
    /\ Len(call[p].again) = Len(call[p].keep)

\* Boxes i < j of equal score that overlap above the threshold, while no
\* third box overlaps either of them above the threshold.
TiedPair(f, i, j) ==
  /\ i < j
  /\ f.dets[i + 1][5] = f.dets[j + 1][5]
  /\ InclusiveIoUAbove(f.dets[i + 1], f.dets[j + 1], f.thresh[1], f.thresh[2])
  /\ \A k \in 0..(Len(f.dets) - 1) :
       k \notin {i, j} =>
         /\ ~InclusiveIoUAbove(f.dets[k + 1], f.dets[i + 1], f.thresh[1], f.thresh[2])
         /\ ~InclusiveIoUAbove(f.dets[k + 1], f.dets[j + 1], f.thresh[1], f.thresh[2])

\* C9 as stated: of two boxes of equal score with IoU > t, the one earlier in
\* the input is kept and the later one is discarded.
C9_TieKeepsEarlier ==
  \A p \in DOMAIN call :
    (call[p].kind = "nms" /\ call[p].pc # "start") =>
      \A i, j \in 0..(Len(call[p].dets) - 1) :
        TiedPair(call[p], i, j) =>
          (i \in Range(call[p].keep) /\ j \notin Range(call[p].keep))

\* The position of Python index i in the keep list (0 when absent).
KeepPos(f, i) ==
  IF i \in Range(f.keep) THEN CHOOSE k \in DOMAIN f.keep : f.keep[k] = i ELSE 0

\* C9 amended: boxes are kept in non-increasing order of score; of two boxes
\* of equal score with IoU > t exactly one is kept when no third box
\* overlaps them, never both; which one is the build's order of equal keys
\* reversed: under a stable argsort the later one in the input.
C9_TieKeepsOne ==
  \A p \in DOMAIN call :
    (call[p].kind = "nms" /\ call[p].pc # "start") =>
      LET f == call[p]
          n == Len(f.dets)
      IN /\ \A k \in 1..(Len(f.keep) - 1) :
              f.dets[f.keep[k] + 1][5] >= f.dets[f.keep[k + 1] + 1][5]
         /\ \A i, j \in 0..(n - 1) :
              TiedPair(f, i, j) =>
                /\ (i \in Range(f.keep)) # (j \in Range(f.keep))
                /\ ties = "stable" => j \in Range(f.keep)

\* C9's case: a tied, overlapping pair with the later box kept.
C9_Witness ==
  \E p \in DOMAIN call :
    /\ call[p].kind = "nms" /\ call[p].pc = "kept"
    /\ Len(call[p].dets) = MaxDets
    /\ \E i, j \in 0..(Len(call[p].dets) - 1) :
         /\ TiedPair(call[p], i, j)
         /\ j \in Range(call[p].keep) /\ i \notin Range(call[p].keep)

----------------------------------------------------------------------------
(* The detection post-processor *)

MAX_DETECTIONS_PER_IMAGE == 100

MaxCand == 3

\* Box regression outputs ty, tx are stored as multiples of 1/DFP.
DFP == 2 * FP

\* The class ids of the model; num_classes is their number.
ClassIds == {0, 1}

\* The geometry of the anchors the labeler and the post-processor share:
\* levels 1 and 2 of a 4 x 4 image, one scale, one aspect ratio: the four
\* 2 x 2 pixel boxes of level 1 and the 4 x 4 pixel box of level 2.
SharedArgs ==
  [min_level |-> 1, max_level |-> 2, num_scales |-> 1,
   aspect_ratios |-> << <<1, 1>> >>, anchor_scale |-> 1,
   image_size |-> 4, image_height |-> 4]

\* The Anchors object Anchors(**args) constructs (lines 321-329).
BuiltAnchors(args) ==
  LET config == generate_anchor_configs(args.min_level, args.max_level,
                                        args.num_scales, args.aspect_ratios)
      b == generate_anchor_boxes(args.image_size, args.anchor_scale, config,
                                 args.image_height, args.min_level, args.max_level)
  IN [min_level |-> args.min_level, max_level |-> args.max_level,
      num_scales |-> args.num_scales, aspect_ratios |-> args.aspect_ratios,
      anchor_scale |-> args.anchor_scale, image_size |-> args.image_size,
      image_height |-> args.image_height,
      state |-> "built", config |-> config, boxes |-> b.boxes]

\* A row of Anchors.boxes, (ymin, xmin, ymax, xmax) (lines 177-178), for an
\* anchor of octave scale 0.
anchor_row(b) ==
  <<b.yv - b.size_y_2, b.xv - b.size_x_2, b.yv + b.size_y_2, b.xv + b.size_x_2>>

\* sigmoid(x) in thousandths, for the logits of the model.
sigmoid(x) ==
  CASE x = -2 -> 119 [] x = -1 -> 269 [] x = 0 -> 500 [] x = 1 -> 731 [] x = 2 -> 881

\* np.exp, for the only size output of the model.
np_exp(x) == CASE x = 0 -> 1

\* decode_box_outputs for one candidate: rel_code = <<ty, tx, th, tw>>,
\* anchor = <<ymin, xmin, ymax, xmax>>.
decode_box_outputs(rel_code, anchor) ==
  LET ycenter_a == (anchor[1] + anchor[3]) \div 2
      xcenter_a == (anchor[2] + anchor[4]) \div 2
      ha == anchor[3] - anchor[1]
      wa == anchor[4] - anchor[2]
      w == np_exp(rel_code[4]) * wa
      h == np_exp(rel_code[3]) * ha
      ycenter == (rel_code[1] * ha) \div DFP + ycenter_a
      xcenter == (rel_code[2] * wa) \div DFP + xcenter_a
  IN <<ycenter - h \div 2, xcenter - w \div 2, ycenter + h \div 2, xcenter + w \div 2>>

\* Lines 219-227: gather the anchors, scores, decoded boxes as (x1, y1, x2, y2).
decode_step(f, anchor_boxes) ==
  [f EXCEPT
     !.scores = [i \in 1..Len(f.cls_outputs) |-> sigmoid(f.cls_outputs[i])],
     !.boxes = [i \in 1..Len(f.box_outputs) |->
                  LET b == decode_box_outputs(f.box_outputs[i],
                                              anchor_row(anchor_boxes[f.indices[i] + 1]))
                  IN <<b[2], b[1], b[4], b[3]>>],
     !.c = 0,
     !.pc = "classes"]

\* np.where(classes == c)[0]
where_eq(classes, c) ==
  SelectSeq([i \in 1..Len(classes) |-> i - 1], LAMBDA i : classes[i + 1] = c)

\* The threshold of line 249.
NMS_THRESH == <<1, 2>>

\* One iteration of the loop of lines 230-266, for class f.c.
class_step(f, t) ==
  LET indices == where_eq(f.classes, f.c)
      all_detections_cls ==
        [k \in 1..Len(indices) |->
           f.boxes[indices[k] + 1] \o <<f.scores[indices[k] + 1]>>]
      top_detection_idx == nms(all_detections_cls, NMS_THRESH, t)
      top_detections_cls ==
        [k \in 1..Len(top_detection_idx) |->
           LET i == indices[top_detection_idx[k] + 1]
           IN [image_id |-> f.image_id,
               box |-> f.boxes[i + 1],
               score |-> f.scores[i + 1],
               class |-> f.c + 1,
               level_index |-> f.level_index[i + 1]]]
  IN [f EXCEPT
        !.detections = f.detections \o top_detections_cls,
        !.kept = f.kept \o take(indices, top_detection_idx),
        !.c = f.c + 1]

\* Line 280 sorting on the column after the score, the class (-2 for -3).
final_order_by_class(detections, t) ==
  argsort([k \in 1..Len(detections) |-> -detections[k].class], t)

\* indices = np.argsort(-detections[:, -3]) (line 280): by descending score
final_order(detections, t) ==
  argsort([k \in 1..Len(detections) |-> -detections[k].score], t)

\* Lines 276-295: the MAX_DETECTIONS_PER_IMAGE best rows, scaled.
finish_step(f, t) ==
  LET indices == final_order(f.detections, t)
      first == SubSeq(indices, 1, Min2(MAX_DETECTIONS_PER_IMAGE, Len(indices)))
  IN [f EXCEPT
        !.sel = first,
        !.out = [k \in 1..Len(first) |->
                   LET d == f.detections[first[k] + 1]
                   IN [box |-> [n \in 1..4 |-> d.box[n] * f.image_scale],
                       score |-> d.score,
                       class |-> d.class,
                       level_index |-> d.level_index]],
        !.pc = "done"]

\* The frame of a call _generate_detections(cls_outputs, box_outputs,
\* anchor_boxes, indices, classes, image_id, image_scale, num_classes,
\* level_index) at its first line.  kept lists the candidates the class-wise
\* nms kept, sel the rows the final cut selected.
DetectFrame(cands, image_id, image_scale) ==
  [kind |-> "detect", pc |-> "start",
   cls_outputs |-> [i \in 1..Len(cands) |-> cands[i].logit],
   box_outputs |-> [i \in 1..Len(cands) |-> <<cands[i].ty, cands[i].tx, 0, 0>>],
   indices |-> [i \in 1..Len(cands) |-> cands[i].idx],
   classes |-> [i \in 1..Len(cands) |-> cands[i].cls],
   level_index |-> [i \in 1..Len(cands) |-> cands[i].level],
   image_id |-> image_id, image_scale |-> image_scale,
   num_classes |-> Cardinality(ClassIds),
   scores |-> << >>, boxes |-> << >>, c |-> 0,
   detections |-> << >>, kept |-> << >>, sel |-> << >>, out |-> << >>]

\* The short candidate lists: anchor 0 moved right by 0, 3/4 or 1 pixel.
SmallCands ==
  [logit : {0, 1}, ty : {0}, tx : {0, 3, 4}, idx : {0}, cls : ClassIds, level : {1}]

\* A long candidate list: candidate i on anchor i % 4, moved right by i
\* anchor widths ("spread"), the first eight not moved ("clustered", where
\* candidates i and i + 4 <= 8 are the same box of the same class).
LongCands(n, mode) ==
  [i \in 1..n |->
     [logit |-> (i % 3) - 1,
      ty |-> 0,
      tx |-> IF mode = "clustered" /\ i <= 8 THEN 0 ELSE i * DFP,
      idx |-> i % 4,
      cls |-> i % 2,
      level |-> 1]]

DetectInputs ==
  {DetectFrame(cands, 7, 2) : cands \in UNION {[1..n -> SmallCands] : n \in 0..MaxCand}}
  \cup {DetectFrame(LongCands(n, mode), 7, 1) :
          n \in {MAX_DETECTIONS_PER_IMAGE + 1, MAX_DETECTIONS_PER_IMAGE + 5},
          mode \in {"spread", "clustered"}}

Decode(p) ==
  /\ call[p].kind = "detect" /\ call[p].pc = "start"
  /\ call' = [call EXCEPT ![p] = decode_step(call[p], anchors.boxes)]
  /\ UNCHANGED <<anchors, unpacked, ties>>

ClassNms(p) ==
  /\ call[p].kind = "detect" /\ call[p].pc = "classes"
  /\ call[p].c < call[p].num_classes
  /\ call' = [call EXCEPT ![p] = class_step(call[p], ties)]
  /\ UNCHANGED <<anchors, unpacked, ties>>
\* The scaling of line 288 done in place on the rows of the shared anchors
\* the call gathered at line 219, as if the gather were a view.
FinishInPlace(p) ==
  /\ call[p].kind = "detect" /\ call[p].pc = "classes"
  /\ call[p].c = call[p].num_classes
  /\ call' = [call EXCEPT ![p] = finish_step(call[p], ties)]
  /\ anchors' = [anchors EXCEPT !.boxes =
                   [i \in 1..Len(anchors.boxes) |->
                      IF \E k \in 1..Len(call[p].indices) : call[p].indices[k] = i - 1
                      THEN [anchors.boxes[i] EXCEPT
                              !.yv = @ * call[p].image_scale,
                              !.xv = @ * call[p].image_scale,
                              !.size_y_2 = @ * call[p].image_scale,
                              !.size_x_2 = @ * call[p].image_scale]
                      ELSE anchors.boxes[i]]]
  /\ UNCHANGED <<unpacked, ties>>

Finish(p) ==
  /\ call[p].kind = "detect" /\ call[p].pc = "classes"
  /\ call[p].c = call[p].num_classes
  /\ call' = [call EXCEPT ![p] = finish_step(call[p], ties)]
  /\ UNCHANGED <<anchors, unpacked, ties>>

InitDetect ==
  /\ anchors = BuiltAnchors(SharedArgs)
  /\ unpacked = << >>
  /\ ties \in TieOrders
  /\ \E f \in DetectInputs : call = [p \in {1} |-> f]

NextDetect ==
  \/ \E p \in DOMAIN call : Decode(p)
  \/ \E p \in DOMAIN call : ClassNms(p)
  \/ \E p \in DOMAIN call : Finish(p)

SpecDetect == InitDetect /\ [][NextDetect]_vars

----------------------------------------------------------------------------
(* Claims about the post-processor, checked under SpecDetect *)

\* C4: the returned list has at most 100 entries, in non-increasing order of
\* score, every survivor is returned when at most 100 survive, and when
\* more survive the returned ones are 100 survivors none of which scores
\* lower than an omitted one.
C4_DetectionBudget ==
  \A p \in DOMAIN call :
    (call[p].kind = "detect" /\ call[p].pc = "done") =>
      LET f == call[p]
          n == Len(f.detections)
          returned == Range(f.sel)
      IN /\ Len(f.out) <= 100
         /\ \A k \in 1..(Len(f.out) - 1) : f.out[k].score >= f.out[k + 1].score
         /\ Len(f.out) = (IF n > 100 THEN 100 ELSE n)
         /\ returned \subseteq 0..(n - 1)
         /\ Cardinality(returned) = Len(f.out)
         /\ \A k \in 1..Len(f.out) :
              /\ f.out[k].score = f.detections[f.sel[k] + 1].score
              /\ f.out[k].class = f.detections[f.sel[k] + 1].class
         /\ \A o \in (0..(n - 1)) \ returned :
              \A r \in returned :
                f.detections[o + 1].score <= f.detections[r + 1].score

\* C4's case: more than 100 survivors, cut to 100 with survivors of several
\* scores left out or returned.
C4_Witness ==
  \E p \in DOMAIN call :
    /\ call[p].kind = "detect" /\ call[p].pc = "done"
    /\ Len(call[p].detections) > 100
    /\ Len(call[p].detections) < Len(call[p].classes)
    /\ Len(call[p].out) = 100
    /\ call[p].out[1].score > call[p].out[100].score

\* C6: after the loop has handled class c, a candidate of class c is absent
\* from the emitted rows iff a kept candidate of class c that scores at
\* least as high has pixel-inclusive IoU above 1/2 with it; the emitted rows
\* are the kept candidates, tagged c + 1.
C6_PerClassNms ==
  \A p \in DOMAIN call :
    (call[p].kind = "detect" /\ call[p].pc \in {"classes", "done"}) =>
      LET f == call[p]
          kept == Range(f.kept)
      IN /\ \A i \in 0..(Len(f.classes) - 1) :
              (f.classes[i + 1] < f.c) =>
                ((i \notin kept) <=>
                   \E j \in kept \ {i} :
                     /\ f.classes[j + 1] = f.classes[i + 1]
                     /\ f.scores[j + 1] >= f.scores[i + 1]
                     /\ InclusiveIoUAbove(f.boxes[i + 1], f.boxes[j + 1], 1, 2))
         /\ Len(f.detections) = Len(f.kept)
         /\ \A k \in 1..Len(f.kept) :
              /\ f.classes[f.kept[k] + 1] < f.c
              /\ f.detections[k].class = f.classes[f.kept[k] + 1] + 1
              /\ f.detections[k].box = f.boxes[f.kept[k] + 1]
              /\ f.detections[k].score = f.scores[f.kept[k] + 1]

\* C6's case: two candidates of one class with IoU > 1/2 of which only the
\* higher-scoring one is emitted, beside a candidate of the other class on
\* the same box, which is emitted too.
C6_Witness ==
  \E p \in DOMAIN call :
    /\ call[p].kind = "detect" /\ call[p].pc = "done"
    /\ \E i, j, k \in 0..(Len(call[p].classes) - 1) :
         LET f == call[p]
         IN /\ f.classes[i + 1] = f.classes[j + 1]
            /\ f.scores[i + 1] > f.scores[j + 1]
            /\ InclusiveIoUAbove(f.boxes[i + 1], f.boxes[j + 1], 1, 2)
            /\ i \in Range(f.kept) /\ j \notin Range(f.kept)
            /\ f.classes[k + 1] # f.classes[i + 1]
            /\ f.boxes[k + 1] = f.boxes[i + 1]
            /\ k \in Range(f.kept)
            /\ Len(f.out) = 2

\* Two candidates of one class with IoU exactly 1/2, both emitted.
ExactHalfKept ==
  \E p \in DOMAIN call :
    /\ call[p].kind = "detect" /\ call[p].pc = "done"
    /\ \E i, j \in Range(call[p].kept) :
         LET f == call[p]
         IN /\ i # j /\ f.classes[i + 1] = f.classes[j + 1]
            /\ 2 * intersection(f.boxes[i + 1], f.boxes[j + 1])
                 = area(f.boxes[i + 1]) + area(f.boxes[j + 1])
                   - intersection(f.boxes[i + 1], f.boxes[j + 1])

----------------------------------------------------------------------------
(* The anchor labeler.  The similarity calculator, the matcher, the box    *)
(* coder and the target assigner live in the object_detection package;    *)
(* they are modelled from the specification (sections 4.2 to 4.4).        *)

MaxGt == 2

\* IoU of two boxes <<ymin, xmin, ymax, xmax>> as the fraction <<I, U>>.
iou(a, g) ==
  LET h == Max2(0, Min2(a[3], g[3]) - Max2(a[1], g[1]))
      w == Max2(0, Min2(a[4], g[4]) - Max2(a[2], g[2]))
      I == h * w
  IN <<I, (a[3] - a[1]) * (a[4] - a[2]) + (g[3] - g[1]) * (g[4] - g[2]) - I>>

\* fractions with positive denominators
frac_gt(x, y) == x[1] * y[2] > y[1] * x[2]
frac_ge(x, y) == x[1] * y[2] >= y[1] * x[2]

\* match_threshold = unmatched_threshold = 0.5 (lines 350, 361-365)
MATCH_THRESHOLD == <<1, 2>>

\* The ground-truth box of highest IoU with anchor i, the lowest index among
\* equals (Python index).
best_gt(S, i, G) ==
  CHOOSE j \in 0..(G - 1) :
    /\ \A k \in 0..(G - 1) : frac_ge(S[i + 1][j + 1], S[i + 1][k + 1])
    /\ \A k \in 0..(j - 1) : frac_gt(S[i + 1][j + 1], S[i + 1][k + 1])

\* First pass: the best ground truth when its IoU reaches the threshold,
\* else unmatched (-1).
row_match(S, i, G) ==
  IF G = 0 THEN -1
  ELSE IF frac_ge(S[i + 1][best_gt(S, i, G) + 1], MATCH_THRESHOLD)
       THEN best_gt(S, i, G) ELSE -1

\* The anchor of highest IoU with ground-truth box j, the lowest index among
\* equals (Python index).
best_anchor(S, j, N) ==
  CHOOSE i \in 0..(N - 1) :
    /\ \A k \in 0..(N - 1) : frac_ge(S[i + 1][j + 1], S[k + 1][j + 1])
    /\ \A k \in 0..(i - 1) : frac_gt(S[i + 1][j + 1], S[k + 1][j + 1])

\* When several ground-truth boxes force one anchor, the specification
\* leaves open which of them the anchor matches: the one of lowest or the
\* one of highest index.
ForcedRules == {"lowest", "highest"}

pick(js, rule) ==
  IF rule = "lowest" THEN CHOOSE j \in js : \A k \in js : j <= k
  ELSE CHOOSE j \in js : \A k \in js : j >= k

\* The result of the two passes: a forced anchor matches a ground truth
\* that forces it, any other anchor keeps its first-pass match.
matching(anchor_rows, gt_boxes, rule) ==
  LET N == Len(anchor_rows)
      G == Len(gt_boxes)
      S == [i \in 1..N |-> [j \in 1..G |-> iou(anchor_rows[i], gt_boxes[j])]]
      forcing == [j \in 1..G |-> best_anchor(S, j - 1, N)]
      forced_by == [i \in 1..N |-> {j \in 0..(G - 1) : forcing[j + 1] = i - 1}]
  IN [i \in 1..N |->
        IF forced_by[i] # {} THEN pick(forced_by[i], rule)
        ELSE row_match(S, i - 1, G)]

\* Box coder, encode direction (4.2): dy and dx as fractions, dh and dw as
\* the fractions whose logarithm they are.
encode(g, a) ==
  LET ha == a[3] - a[1]
      wa == a[4] - a[2]
  IN [dy |-> <<(g[1] + g[3]) - (a[1] + a[3]), 2 * ha>>,
      dx |-> <<(g[2] + g[4]) - (a[2] + a[4]), 2 * wa>>,
      ln_dh |-> <<g[3] - g[1], ha>>,
      ln_dw |-> <<g[4] - g[2], wa>>]

\* The box target of an unmatched anchor: the zero vector (ln 1 = 0).
ZeroTarget == [dy |-> <<0, 1>>, dx |-> <<0, 1>>, ln_dh |-> <<1, 1>>, ln_dw |-> <<1, 1>>]

\* TargetAssigner.assign for the match m: the class target of a matched
\* anchor is its ground truth's label, of an unmatched one 0; the box
\* target is the encoded ground truth, or zero.
assign(f, anchor_boxes, m) ==
  [f EXCEPT
     !.matches = m,
     !.cls_targets = [i \in 1..Len(anchor_boxes) |->
                        IF m[i] = -1 THEN 0 ELSE f.gt_labels[m[i] + 1]],
     !.box_targets = [i \in 1..Len(anchor_boxes) |->
                        IF m[i] = -1 THEN ZeroTarget
                        ELSE encode(f.gt_boxes[m[i] + 1], anchor_row(anchor_boxes[i]))],
     !.pc = "assigned"]

\* cls_targets kept as the assigner returns them.
keep_cls_targets(cls_targets) == cls_targets

\* cls_targets -= 1 (line 426)
shift_cls_targets(cls_targets) ==
  [i \in 1..Len(cls_targets) |-> cls_targets[i] - 1]

\* Lines 426-435 of label_anchors.
label_step(f, a) ==
  [f EXCEPT
     !.out = [cls_targets_dict |-> unpack_labels(a, shift_cls_targets(f.cls_targets)),
              box_targets_dict |-> unpack_labels(a, f.box_targets),
              num_positives |-> Cardinality({i \in 1..Len(f.matches) : f.matches[i] # -1})],
     !.pc = "done"]

\* The frame of a call label_anchors(gt_boxes, gt_labels).
LabelFrame(gts) ==
  [kind |-> "label", pc |-> "start",
   gt_boxes |-> [j \in 1..Len(gts) |-> gts[j].box],
   gt_labels |-> [j \in 1..Len(gts) |-> gts[j].label],
   matches |-> << >>, cls_targets |-> << >>, box_targets |-> << >>,
   out |-> << >>]

\* Ground-truth boxes <<ymin, xmin, ymax, xmax>>: anchor 0 itself, its top
\* left quarter, anchor 3 itself, the level 2 anchor itself.
GtBoxes == { <<0, 0, 8, 8>>, <<0, 0, 4, 4>>, <<8, 8, 16, 16>>, <<0, 0, 16, 16>> }

\* Labels: the ids 0..num_classes-1 of the specification and the ids
\* 1..num_classes of the comment at line 425.
GtLabels == 0..Cardinality(ClassIds)

LabelInputs ==
  {LabelFrame(gts) : gts \in UNION {[1..n -> [box : GtBoxes, label : GtLabels]] : n \in 0..MaxGt}}

\* Lines 418-423: the target assigner's call.
Assign(p) ==
  /\ call[p].kind = "label" /\ call[p].pc = "start"
  /\ \E rule \in ForcedRules :
       call' = [call EXCEPT ![p] =
                  assign(call[p], anchors.boxes,
                         matching([i \in 1..Len(anchors.boxes) |-> anchor_row(anchors.boxes[i])],
                                  call[p].gt_boxes, rule))]
  /\ UNCHANGED <<anchors, unpacked, ties>>

\* Lines 426-435.
Label(p) ==
  /\ call[p].kind = "label" /\ call[p].pc = "assigned"
  /\ call' = [call EXCEPT ![p] = label_step(call[p], anchors)]
  /\ UNCHANGED <<anchors, unpacked, ties>>

InitLabel ==
  /\ anchors = BuiltAnchors(SharedArgs)
  /\ unpacked = << >>
  /\ ties = "stable"
  /\ \E f \in LabelInputs : call = [p \in {1} |-> f]

NextLabel ==
  \/ \E p \in DOMAIN call : Assign(p)
  \/ \E p \in DOMAIN call : Label(p)

SpecLabel == InitLabel /\ [][NextLabel]_vars

----------------------------------------------------------------------------
(* Claims about the labeler, checked under SpecLabel *)

\* C1: after matching, every ground-truth index 0..G-1 is the match of at
\* least one anchor.
C1_EveryGtMatched ==
  \A p \in DOMAIN call :
    (call[p].kind = "label" /\ call[p].pc # "start") =>
      \A j \in 0..(Len(call[p].gt_boxes) - 1) :
        \E i \in 1..Len(call[p].matches) : call[p].matches[i] = j

RECURSIVE Flat(_)
\* The per-level slices of an unpacked array, joined again.
Flat(levels) ==
  IF levels = << >> THEN << >> ELSE Head(levels).data \o Flat(Tail(levels))

\* C7 as stated: a matched anchor's class target is its ground truth's
\* classId, which is never -1; an unmatched anchor's is -1 and its box
\* target zero.
C7_TargetIsClassId ==
  \A p \in DOMAIN call :
    (call[p].kind = "label" /\ call[p].pc = "done") =>
      LET f == call[p]
          cls == Flat(f.out.cls_targets_dict.levels)
          box == Flat(f.out.box_targets_dict.levels)
      IN \A i \in 1..Len(f.matches) :
           IF f.matches[i] # -1
           THEN cls[i] = f.gt_labels[f.matches[i] + 1] /\ cls[i] # -1
           ELSE cls[i] = -1 /\ box[i] = ZeroTarget

\* C7 amended: a matched anchor's class target is its ground truth's label
\* minus one, so never -1 for the labels 1..num_classes; an unmatched
\* anchor's is -1 and its box target zero.
C7_TargetIsLabelMinusOne ==
  \A p \in DOMAIN call :
    (call[p].kind = "label" /\ call[p].pc = "done") =>
      LET f == call[p]
          cls == Flat(f.out.cls_targets_dict.levels)
          box == Flat(f.out.box_targets_dict.levels)
      IN /\ Len(cls) = Len(f.matches) /\ Len(box) = Len(f.matches)
         /\ \A i \in 1..Len(f.matches) :
              IF f.matches[i] # -1
              THEN /\ cls[i] = f.gt_labels[f.matches[i] + 1] - 1
                   /\ f.gt_labels[f.matches[i] + 1] >= 1 => cls[i] # -1
              ELSE cls[i] = -1 /\ box[i] = ZeroTarget

\* C7's case: a labelled image with a matched anchor of a label in
\* 1..num_classes and unmatched anchors.
C7_Witness ==
  \E p \in DOMAIN call :
    /\ call[p].kind = "label" /\ call[p].pc = "done"
    /\ call[p].out.num_positives = 2
    /\ \E i \in 1..Len(call[p].matches) :
         /\ call[p].matches[i] # -1
         /\ call[p].gt_labels[call[p].matches[i] + 1] >= 1
         /\ Flat(call[p].out.cls_targets_dict.levels)[i] >= 0
    /\ \E i \in 1..Len(call[p].matches) : call[p].matches[i] = -1

----------------------------------------------------------------------------
(* Concurrent invocations over one Anchors object *)

NProcs == 2

\* The rest of the class loop, from class f.c on.
RECURSIVE class_loop(_, _)
class_loop(f, t) ==
  IF f.c < f.num_classes THEN class_loop(class_step(f, t), t) ELSE f

\* _generate_detections as one function of its arguments (the frame f at its
\* first line) and the anchors.
generate_detections(f, anchor_boxes, t) ==
  finish_step(class_loop(decode_step(f, anchor_boxes), t), t).out

\* label_anchors as one function of its arguments and the Anchors object,
\* for the matcher's rule.
label_anchors(f, a, rule) ==
  label_step(assign(f, a.boxes,
                    matching([i \in 1..Len(a.boxes) |-> anchor_row(a.boxes[i])],
                             f.gt_boxes, rule)),
             a).out

\* The calls that run side by side: one or two candidates on anchor 0 or on
\* the level 2 anchor; no, or one, ground-truth box.
SharedInputs ==
  {DetectFrame(<<c>>, 7, 2) :
     c \in [logit : {0}, ty : {0}, tx : {0, 3}, idx : {0, 4}, cls : {0}, level : {1}]}
  \cup {DetectFrame(<<[logit |-> 1, ty |-> 0, tx |-> 0, idx |-> 0, cls |-> 1, level |-> 1],
                      [logit |-> 0, ty |-> 0, tx |-> 3, idx |-> 0, cls |-> 1, level |-> 1]>>,
                    7, 2)}
  \cup {LabelFrame(gts) :
          gts \in UNION {[1..n -> [box : {<<0, 0, 8, 8>>, <<0, 0, 16, 16>>}, label : {1}]] :
                           n \in 0..1}}

InitShared ==
  /\ anchors = BuiltAnchors(SharedArgs)
  /\ unpacked = << >>
  /\ ties \in TieOrders
  /\ call \in [1..NProcs -> SharedInputs]

NextShared ==
  \/ \E p \in DOMAIN call : Decode(p)
  \/ \E p \in DOMAIN call : ClassNms(p)
  \/ \E p \in DOMAIN call : Finish(p)
  \/ \E p \in DOMAIN call : Assign(p)
  \/ \E p \in DOMAIN call : Label(p)

SpecShared == InitShared /\ [][NextShared]_vars

----------------------------------------------------------------------------
(* Claims about concurrent invocations, checked under SpecShared *)

\* The arrays and scalars the caller supplied to a call.
Inputs(f) ==
  IF f.kind = "detect"
  THEN <<f.cls_outputs, f.box_outputs, f.indices, f.classes, f.level_index,
         f.image_id, f.image_scale, f.num_classes>>
  ELSE <<f.gt_boxes, f.gt_labels>>

\* The frame of the call at its first line, from the inputs it still holds.
Restart(f) ==
  IF f.kind = "detect"
  THEN [f EXCEPT !.pc = "start", !.scores = << >>, !.boxes = << >>, !.c = 0,
                 !.detections = << >>, !.kept = << >>, !.sel = << >>, !.out = << >>]
  ELSE [f EXCEPT !.pc = "start", !.matches = << >>, !.cls_targets = << >>,
                 !.box_targets = << >>, !.out = << >>]

\* What the call returns when it runs alone over the anchors as built.
AloneResults(f) ==
  IF f.kind = "detect"
  THEN {generate_detections(Restart(f), BuiltAnchors(SharedArgs).boxes, ties)}
  ELSE {label_anchors(Restart(f), BuiltAnchors(SharedArgs), rule) : rule \in ForcedRules}

\* The anchors are as built, and every finished call holds a result it
\* returns when run alone on its inputs.
SharedState ==
  /\ anchors = BuiltAnchors(SharedArgs)
  /\ \A p \in DOMAIN call :
       call[p].pc = "done" => call[p].out \in AloneResults(call[p])

\* No step changes the anchors or the inputs of any call.
SharedStep ==
  /\ anchors' = anchors
  /\ \A p \in DOMAIN call : Inputs(call'[p]) = Inputs(call[p])

\* C8: in every interleaving of the calls the shared anchors and the
\* callers' inputs are never modified, and each call returns what it
\* returns when run alone.
C8_SharedReadOnly == [](SharedState) /\ [][SharedStep]_vars

\* C8's case: a labeler call and a post-processor call, both finished,
\* whose steps interleaved.
C8_Witness ==
  /\ \E p, q \in DOMAIN call :
       /\ call[p].kind = "detect" /\ call[p].pc = "done" /\ Len(call[p].out) = 1
       /\ Len(call[p].classes) = 2
       /\ call[q].kind = "label" /\ call[q].pc = "done"
       /\ call[q].out.num_positives = 1

====
